---- MODULE Spec2Model ----
(***************************************************************************)
(* Model of src/dkng/main.py: the DKNG analysis script.                    *)
(*                                                                         *)
(* The script is one straight-line run: two price frames are downloaded,   *)
(* derived columns are added to the instrument frame one statement at a    *)
(* time, the summary scalars are computed and printed, and the cumulative  *)
(* return series are built for the last chart.  The state is the script's  *)
(* global namespace plus its position (pc), the text written to stdout and *)
(* the exception that ended the run, if any.                               *)
(*                                                                         *)
(* Numbers.  The script computes in IEEE doubles.  A double is modelled as *)
(* a value record [k, n, d]:                                               *)
(*    k = "num"   the rational n/d (d > 0, lowest terms)                   *)
(*    k = "root"  (n/d) * sqrt(rn/rd): what np.sqrt and .std() give rise to *)
(*    k = "nan", "inf", "ninf"   the IEEE specials                         *)
(* so rounding error is left out (every finite result is exact) while the  *)
(* special values, which decide the edge cases, follow IEEE 754: x/0 is    *)
(* +-inf, 0/0 and inf-inf are nan, nan is contagious and compares false.   *)
(* The sign of zero is not modelled.                                       *)
(*                                                                         *)
(* Indices.  Python positions 0..N-1 are TLA+ positions 1..N.              *)
(***************************************************************************)
EXTENDS Integers, Sequences, FiniteSets, TLC

(***************************************************************************)
(* Bounds of the model (not program constants).                            *)
(***************************************************************************)
\* closes are drawn from 1..MaxPrice
MaxPrice == 4
\* every series length 0..MaxLen is explored (besides the window boundaries)
MaxLen == 4
\* the benchmark's date axis may start up to MaxShift days after the instrument's
MaxShift == 1

(***************************************************************************)
(* Program constants.                                                      *)
(***************************************************************************)
MA_20_window == 20
MA_50_window == 50
MA_200_window == 200
Volatility_window == 20
rsi_period == 14
exp1_span == 12
exp2_span == 26
Signal_span == 9
TradingDays == 252
Week52 == 252

(***************************************************************************)
(* IEEE-style arithmetic on value records.                                 *)
(***************************************************************************)
Abs(x) == IF x < 0 THEN -x ELSE x

Sgn(x) == IF x < 0 THEN -1 ELSE IF x > 0 THEN 1 ELSE 0

RECURSIVE GCD(_, _)
GCD(a, b) == IF b = 0 THEN a ELSE GCD(b, a % b)

NaN == [k |-> "nan", n |-> 0, d |-> 1]

PosInf == [k |-> "inf", n |-> 1, d |-> 1]

NegInf == [k |-> "ninf", n |-> -1, d |-> 1]

\* the rational n/d in lowest terms, d # 0
Rat(n, d) ==
    LET g == GCD(Abs(n), Abs(d))
        s == IF d < 0 THEN -1 ELSE 1
    IN [k |-> "num", n |-> (s * n) \div g, d |-> (s * d) \div g]

\* q * sqrt(r) for rationals q # 0 and r > 0
Root(q, r) == [k |-> "root", n |-> q.n, d |-> q.d, rn |-> r.n, rd |-> r.d]

FromInt(i) == [k |-> "num", n |-> i, d |-> 1]

Zero == FromInt(0)

IsNaN(a) == a.k = "nan"

\* a finite number (rational or root)
IsFinite(a) == a.k \in {"num", "root"}

IsInf(a) == a.k \in {"inf", "ninf"}

\* -1, 0 or 1; nan has no sign and is never asked for one
Sign(a) == Sgn(a.n)

IsZero(a) == IsFinite(a) /\ a.n = 0

InfOfSign(s) == IF s < 0 THEN NegInf ELSE PosInf

Neg(a) == CASE a.k = "nan" -> NaN
            [] a.k = "inf" -> NegInf
            [] a.k = "ninf" -> PosInf
            [] OTHER -> [a EXCEPT !.n = -a.n]

\* rational sum over the least common denominator
RatAdd(a, b) ==
    IF a.n = 0 THEN b
    ELSE IF b.n = 0 THEN a
    ELSE IF a.d = 1 /\ b.d = 1 THEN [k |-> "num", n |-> a.n + b.n, d |-> 1]
    ELSE LET g == GCD(a.d, b.d)
         IN Rat(a.n * (b.d \div g) + b.n * (a.d \div g), (a.d \div g) * b.d)

\* rational product, cross-cancelled before multiplying
RatMul(a, b) ==
    IF a.n = 0 \/ b.n = 0 THEN [k |-> "num", n |-> 0, d |-> 1]
    ELSE IF a.d = 1 /\ b.d = 1 THEN [k |-> "num", n |-> a.n * b.n, d |-> 1]
    ELSE LET g1 == GCD(Abs(a.n), b.d)
             g2 == GCD(Abs(b.n), a.d)
         IN Rat((a.n \div g1) * (b.n \div g2), (a.d \div g2) * (b.d \div g1))

\* a + b on doubles (operands are rationals or specials)
Add(a, b) ==
    IF IsNaN(a) \/ IsNaN(b) THEN NaN
    ELSE IF IsInf(a) /\ IsInf(b) THEN (IF a.k = b.k THEN a ELSE NaN)
    ELSE IF IsInf(a) THEN a
    ELSE IF IsInf(b) THEN b
    ELSE RatAdd(a, b)

Sub(a, b) == Add(a, Neg(b))

\* the rational factor and the radicand of a finite value (1 for a rational)
Coef(a) == [k |-> "num", n |-> a.n, d |-> a.d]

Radicand(a) == IF a.k = "root" THEN [k |-> "num", n |-> a.rn, d |-> a.rd] ELSE FromInt(1)

\* a * b on doubles
Mul(a, b) ==
    IF IsNaN(a) \/ IsNaN(b) THEN NaN
    ELSE IF IsInf(a) \/ IsInf(b)
         THEN (IF IsZero(a) \/ IsZero(b) THEN NaN ELSE InfOfSign(Sign(a) * Sign(b)))
    ELSE IF a.k = "num" /\ b.k = "num" THEN RatMul(a, b)
    ELSE IF IsZero(a) \/ IsZero(b) THEN FromInt(0)
    ELSE Root(RatMul(Coef(a), Coef(b)), RatMul(Radicand(a), Radicand(b)))

\* 1/b for a finite nonzero b
Recip(b) ==
    IF b.k = "num" THEN Rat(b.d, b.n)
    ELSE Root(Rat(b.d, b.n), [k |-> "num", n |-> b.rd, d |-> b.rn])

\* a / b on doubles: division by zero gives +-inf, or nan for 0/0
Div(a, b) ==
    IF IsNaN(a) \/ IsNaN(b) THEN NaN
    ELSE IF IsInf(b) THEN (IF IsInf(a) THEN NaN ELSE FromInt(0))
    ELSE IF IsZero(b) THEN (IF IsZero(a) THEN NaN ELSE InfOfSign(Sign(a)))
    ELSE IF IsInf(a) THEN InfOfSign(Sign(a) * Sign(b))
    ELSE Mul(a, Recip(b))

\* np.sqrt of a rational or a special
Sqrt(a) ==
    IF IsNaN(a) THEN NaN
    ELSE IF a.k = "inf" THEN PosInf
    ELSE IF a.k = "ninf" \/ a.n < 0 THEN NaN
    ELSE IF a.n = 0 THEN a
    ELSE Root(FromInt(1), a)

\* a < b on doubles (false when either is nan); operands rational or special
Lt(a, b) ==
    IF IsNaN(a) \/ IsNaN(b) THEN FALSE
    ELSE IF a.k = "inf" \/ b.k = "ninf" THEN FALSE
    ELSE IF a.k = "ninf" \/ b.k = "inf" THEN TRUE
    ELSE a.n * b.d < b.n * a.d

Gt(a, b) == Lt(b, a)

Le(a, b) == ~IsNaN(a) /\ ~IsNaN(b) /\ ~Lt(b, a)

(***************************************************************************)
(* pandas operations on a Series: a sequence of value records.             *)
(*                                                                         *)
(* A running computation (rolling window, ewm, cummax, cumprod) is one     *)
(* left-to-right pass that carries a state from each position to the next; *)
(* Scan makes that pass over lo..hi by halves, so that its depth is        *)
(* logarithmic in the length of the series.                                *)
(***************************************************************************)
One == FromInt(1)

Hundred == FromInt(100)

\* pct_change() followed by fillna(0): the first return reads 0
pct_change_filled(s) ==
    [i \in 1..Len(s) |-> IF i = 1 THEN Zero ELSE Sub(Div(s[i], s[i - 1]), One)]

\* Series.pct_change(): s / s.shift(1) - 1, undefined at the first position
pct_change(s) ==
    [i \in 1..Len(s) |-> IF i = 1 THEN NaN ELSE Sub(Div(s[i], s[i - 1]), One)]

\* Series.diff(): s - s.shift(1), undefined at the first position
diff(s) ==
    [i \in 1..Len(s) |-> IF i = 1 THEN NaN ELSE Sub(s[i], s[i - 1])]

NotNaN(x) == ~IsNaN(x)

\* the observations of s that are not nan, in order (skipna)
dropna(s) == SelectSeq(s, NotNaN)

\* sum / minimum / maximum of the two values a and b that are not nan
Combine(op, a, b) ==
    CASE op = "sum" -> Add(a, b)
      [] op = "min" -> IF Lt(b, a) THEN b ELSE a
      [] op = "max" -> IF Lt(a, b) THEN b ELSE a

\* the sum / minimum / maximum of s[lo..hi], lo <= hi
RECURSIVE Fold(_, _, _, _)
Fold(op, s, lo, hi) ==
    IF lo = hi THEN s[lo]
    ELSE LET mid == (lo + hi) \div 2
         IN Combine(op, Fold(op, s, lo, mid), Fold(op, s, mid + 1, hi))

SumSeq(s) == IF s = <<>> THEN Zero ELSE Fold("sum", s, 1, Len(s))

\* sample variance (ddof = 1) from the count, the sum and the sum of squares
VarOf(nobs, sum_x, sum_xx) ==
    Div(Sub(sum_xx, Div(Mul(sum_x, sum_x), FromInt(nobs))), FromInt(nobs - 1))

\* Series.mean(): nan observations are skipped; nan when none is left
mean(s) ==
    LET v == dropna(s)
    IN IF Len(v) = 0 THEN NaN ELSE Div(SumSeq(v), FromInt(Len(v)))

\* Series.std(): sample standard deviation (ddof = 1) of the observations
\* that are not nan; nan when fewer than two are left
std(s) ==
    LET v == dropna(s)
    IN IF Len(v) <= 1 THEN NaN
       ELSE Sqrt(VarOf(Len(v), SumSeq(v), SumSeq([i \in 1..Len(v) |-> Mul(v[i], v[i])])))

\* Series.min() / Series.max(): nan is skipped; nan when nothing is left
min(s) == LET v == dropna(s) IN IF v = <<>> THEN NaN ELSE Fold("min", v, 1, Len(v))

max(s) == LET v == dropna(s) IN IF v = <<>> THEN NaN ELSE Fold("max", v, 1, Len(v))

\* the window state after observation x enters / leaves: nan is not
\* counted, and the squares are kept only for a variance (op.sq)
AddObs(op, st, x) ==
    IF IsNaN(x) THEN st
    ELSE [nobs |-> st.nobs + 1, sum_x |-> Add(st.sum_x, x),
          sum_xx |-> IF op.sq THEN Add(st.sum_xx, Mul(x, x)) ELSE Zero]

RemoveObs(op, st, x) ==
    IF IsNaN(x) THEN st
    ELSE [nobs |-> st.nobs - 1, sum_x |-> Sub(st.sum_x, x),
          sum_xx |-> IF op.sq THEN Sub(st.sum_xx, Mul(x, x)) ELSE Zero]

\* rolling window of op.w positions: position i holds the observations
\* i-w+1..i that exist and are not nan
RollStep(op, st, s, i) ==
    LET st1 == AddObs(op, st, s[i])
    IN IF i > op.w THEN RemoveObs(op, st1, s[i - op.w]) ELSE st1

\* ewm(adjust=False) on a series without nan:
\* y[0] = x[0], y[t] = (1 - alpha) * y[t-1] + alpha * x[t]
EwmStep(op, st, s, i) ==
    IF i = 1 THEN [out |-> s[1]]
    ELSE [out |-> Add(Mul(Sub(One, op.alpha), st.out), Mul(op.alpha, s[i]))]

\* cummin in the place of cummax
CumMinStep(st, s, i) ==
    IF IsNaN(s[i]) THEN [carry |-> st.carry, out |-> NaN]
    ELSE LET b == IF IsNaN(st.carry) \/ Lt(s[i], st.carry) THEN s[i] ELSE st.carry
         IN [carry |-> b, out |-> b]

\* cummax: a nan position stays nan and is skipped
CumMaxStep(st, s, i) ==
    IF IsNaN(s[i]) THEN [carry |-> st.carry, out |-> NaN]
    ELSE LET b == IF IsNaN(st.carry) \/ Lt(st.carry, s[i]) THEN s[i] ELSE st.carry
         IN [carry |-> b, out |-> b]

\* cumprod: a nan position stays nan and is skipped
CumProdStep(st, s, i) ==
    IF IsNaN(s[i]) THEN [carry |-> st.carry, out |-> NaN]
    ELSE LET p == Mul(st.carry, s[i]) IN [carry |-> p, out |-> p]

Step(op, st, s, i) ==
    CASE op.name = "rolling" -> RollStep(op, st, s, i)
      [] op.name = "ewm" -> EwmStep(op, st, s, i)
      [] op.name = "cummax" -> CumMaxStep(st, s, i)
      [] op.name = "cumprod" -> CumProdStep(st, s, i)

\* the states after positions lo..hi of a pass that enters lo in state st
RECURSIVE Scan(_, _, _, _, _)
Scan(op, s, lo, hi, st) ==
    IF lo > hi THEN <<>>
    ELSE IF lo = hi THEN <<Step(op, st, s, lo)>>
    ELSE LET mid == (lo + hi) \div 2
             left == Scan(op, s, lo, mid, st)
         IN left \o Scan(op, s, mid + 1, hi, left[Len(left)])

rolling(s, w, sq) ==
    Scan([name |-> "rolling", w |-> w, sq |-> sq], s, 1, Len(s),
         [nobs |-> 0, sum_x |-> Zero, sum_xx |-> Zero])

\* rolling(window=w, min_periods=1).mean(): a partial window is averaged
rolling_mean_min_periods_1(s, w) ==
    LET r == rolling(s, w, FALSE)
    IN [i \in 1..Len(s) |->
          IF r[i].nobs >= 1 THEN Div(r[i].sum_x, FromInt(r[i].nobs)) ELSE NaN]

\* Series.rolling(window=w).mean(): min_periods defaults to w, so a window
\* with fewer than w counted observations is nan
rolling_mean(s, w) ==
    LET r == rolling(s, w, FALSE)
    IN [i \in 1..Len(s) |->
          IF r[i].nobs >= w /\ r[i].nobs > 0
          THEN Div(r[i].sum_x, FromInt(r[i].nobs)) ELSE NaN]

\* Series.rolling(window=w).std(): sample standard deviation of the window
rolling_std(s, w) ==
    LET r == rolling(s, w, TRUE)
    IN [i \in 1..Len(s) |->
          IF r[i].nobs >= w /\ r[i].nobs > 1
          THEN Sqrt(VarOf(r[i].nobs, r[i].sum_x, r[i].sum_xx)) ELSE NaN]

Outs(r) == [i \in 1..Len(r) |-> r[i].out]

\* ewm(com=span, adjust=False).mean(): alpha = 1/(1+span)
ewm_mean_com(s, span) ==
    Outs(Scan([name |-> "ewm", alpha |-> Rat(1, span + 1)], s, 1, Len(s), [out |-> NaN]))

\* Series.ewm(span=span, adjust=False).mean(), alpha = 2/(span+1)
ewm_mean(s, span) ==
    Outs(Scan([name |-> "ewm", alpha |-> Rat(2, span + 1)], s, 1, Len(s), [out |-> NaN]))

\* Series.cummax(): the running maximum
cummax(s) ==
    Outs(Scan([name |-> "cummax"], s, 1, Len(s), [carry |-> NaN, out |-> NaN]))

\* Series.cumprod(): the running product
cumprod(s) ==
    Outs(Scan([name |-> "cumprod"], s, 1, Len(s), [carry |-> One, out |-> NaN]))

\* Series.tail(n): the last n observations (all of them when there are fewer)
tail(s, n) == IF Len(s) <= n THEN s ELSE SubSeq(s, Len(s) - n + 1, Len(s))

\* elementwise arithmetic of two aligned Series, and of a Series and a scalar
SeriesSub(a, b) == [i \in 1..Len(a) |-> Sub(a[i], b[i])]

SeriesDiv(a, b) == [i \in 1..Len(a) |-> Div(a[i], b[i])]

SeriesAddScalar(a, c) == [i \in 1..Len(a) |-> Add(a[i], c)]

SeriesMulScalar(a, c) == [i \in 1..Len(a) |-> Mul(a[i], c)]

(***************************************************************************)
(* The script's state.                                                     *)
(*                                                                         *)
(* A DataFrame is [index, col]: the date axis and the columns by name.     *)
(***************************************************************************)
VARIABLES pc, dkng, spy, exp1, exp2,
          total_return_dkng, total_return_spy, annual_volatility,
          sharpe_ratio, max_drawdown, dkng_cum, spy_cum, stdout, raised

vars == <<pc, dkng, spy, exp1, exp2, total_return_dkng, total_return_spy,
          annual_volatility, sharpe_ratio, max_drawdown, dkng_cum, spy_cum,
          stdout, raised>>

\* a name that is not bound yet
Unset == [k |-> "unset", n |-> 0, d |-> 1]

Close(df) == df.col["Close"]

\* df[name] = series
SetCol(df, name, series) == [df EXCEPT !.col = (name :> series) @@ df.col]

\* Series.iloc[-1] and Series.iloc[0] of a series that is not empty
ilocLast(s) == s[Len(s)]

ilocFirst(s) == s[1]

\* an f-string field "{v:.2f}" / "{v:.4f}": the specials print as nan, inf
\* and -inf; the digits of a finite value are not modelled (it is kept)
Fmt(v) ==
    [special |-> CASE v.k = "nan" -> "nan"
                   [] v.k = "inf" -> "inf"
                   [] v.k = "ninf" -> "-inf"
                   [] OTHER -> "",
     number |-> v]

\* print(...) of a line with one formatted field, and of a line without
PrintField(label, v) == [label |-> label, text |-> Fmt(v)]

PrintLine(label) == [label |-> label, text |-> [special |-> "", number |-> Unset]]

(***************************************************************************)
(* Lines 13-14: what the price-data provider returns.  The downloaded      *)
(* frames are the run's only input.  A frame holds n daily bars on         *)
(* consecutive dates: a flat history at price c followed by two final bars *)
(* t1, t2 (so all series of up to two bars, and every single and double    *)
(* move at the end of a longer one).  Lengths are every length up to       *)
(* MaxLen and the lengths around each window of the script.                *)
(***************************************************************************)
Prices == 1..MaxPrice

Windows == {rsi_period, MA_20_window, MA_50_window, MA_200_window, Volatility_window}

Lengths == (0..MaxLen) \cup UNION {{w - 1, w, w + 1} : w \in Windows}

Bars(n, c, t1, t2) ==
    [i \in 1..n |-> FromInt(IF i = n THEN t2 ELSE IF i = n - 1 THEN t1 ELSE c)]

Frame(start, closes) ==
    [index |-> [i \in 1..Len(closes) |-> start + i], col |-> ("Close" :> closes)]

\* yf.download(...) for the instrument and for the benchmark.  Either both
\* frames lie on one date axis (any length; the benchmark is flat), or both
\* are short, each moves on its last bar only, and the benchmark has a
\* length and a first date of its own
Downloaded(d, s) ==
    \/ \E n \in Lengths, c \in Prices, t1 \in Prices, t2 \in Prices :
          /\ d = Frame(0, Bars(n, c, t1, t2))
          /\ s = Frame(0, Bars(n, 1, 1, 1))
    \/ \E n \in 0..MaxLen, c \in Prices, t2 \in Prices :
       \E m \in 0..MaxLen, sh \in 0..MaxShift, ts \in Prices :
          /\ d = Frame(0, Bars(n, c, c, t2))
          /\ s = Frame(sh, Bars(m, 1, 1, ts))

Init ==
    /\ Downloaded(dkng, spy)
    /\ pc = "returns"
    /\ exp1 = <<>>
    /\ exp2 = <<>>
    /\ total_return_dkng = Unset
    /\ total_return_spy = Unset
    /\ annual_volatility = Unset
    /\ sharpe_ratio = Unset
    /\ max_drawdown = Unset
    /\ dkng_cum = <<>>
    /\ spy_cum = <<>>
    /\ stdout = <<PrintLine("Fetching")>>
    /\ raised = "none"

(***************************************************************************)
(* Lines 17-18: daily returns of both frames.                              *)
(***************************************************************************)
Daily_Return(df) == pct_change(Close(df))

Returns ==
    /\ pc = "returns"
    /\ dkng' = SetCol(dkng, "Daily_Return", Daily_Return(dkng))
    /\ spy' = SetCol(spy, "Daily_Return", Daily_Return(spy))
    /\ pc' = "ma"
    /\ UNCHANGED <<exp1, exp2, total_return_dkng, total_return_spy,
                   annual_volatility, sharpe_ratio, max_drawdown, dkng_cum,
                   spy_cum, stdout, raised>>

(***************************************************************************)
(* Lines 21-23: simple moving averages of the close.                       *)
(***************************************************************************)
MA(df, window) == rolling_mean(Close(df), window)

MovingAverages ==
    /\ pc = "ma"
    /\ dkng' = SetCol(SetCol(SetCol(dkng,
                   "MA_20", MA(dkng, MA_20_window)),
                   "MA_50", MA(dkng, MA_50_window)),
                   "MA_200", MA(dkng, MA_200_window))
    /\ pc' = "vol"
    /\ UNCHANGED <<spy, exp1, exp2, total_return_dkng, total_return_spy,
                   annual_volatility, sharpe_ratio, max_drawdown, dkng_cum,
                   spy_cum, stdout, raised>>

(***************************************************************************)
(* Line 26: annualized rolling volatility of the daily returns.            *)
(***************************************************************************)
Volatility(df) ==
    SeriesMulScalar(rolling_std(df.col["Daily_Return"], Volatility_window),
                    Sqrt(FromInt(TradingDays)))

VolatilityStep ==
    /\ pc = "vol"
    /\ dkng' = SetCol(dkng, "Volatility", Volatility(dkng))
    /\ pc' = "rsi"
    /\ UNCHANGED <<spy, exp1, exp2, total_return_dkng, total_return_spy,
                   annual_volatility, sharpe_ratio, max_drawdown, dkng_cum,
                   spy_cum, stdout, raised>>

(***************************************************************************)
(* Lines 29-37: RSI.                                                       *)
(***************************************************************************)
\* delta.where(delta > 0, 0): a position where the test is false, the
\* undefined first delta included, becomes 0
where_gt0(delta) == [i \in 1..Len(delta) |-> IF Gt(delta[i], Zero) THEN delta[i] ELSE Zero]

\* delta.where(delta < 0, 0)
where_lt0(delta) == [i \in 1..Len(delta) |-> IF Lt(delta[i], Zero) THEN delta[i] ELSE Zero]

\* line 31
rsi_gain(data, period) == rolling_mean(where_gt0(diff(data)), period)

\* line 32
rsi_loss(data, period) ==
    LET w == where_lt0(diff(data))
    IN rolling_mean([i \in 1..Len(w) |-> Neg(w[i])], period)

\* lines 33-34 with a zero average loss treated as undefined
rsi_of_guarded(gain, loss) ==
    IF IsZero(loss) THEN NaN
    ELSE Sub(Hundred, Div(Hundred, Add(One, Div(gain, loss))))

\* lines 33-34 at one position
rsi_of(gain, loss) == Sub(Hundred, Div(Hundred, Add(One, Div(gain, loss))))

calculate_rsi(data, period) ==
    LET gain == rsi_gain(data, period)
        loss == rsi_loss(data, period)
    IN [i \in 1..Len(data) |-> rsi_of(gain[i], loss[i])]

RSI ==
    /\ pc = "rsi"
    /\ dkng' = SetCol(dkng, "RSI", calculate_rsi(Close(dkng), rsi_period))
    /\ pc' = "macd"
    /\ UNCHANGED <<spy, exp1, exp2, total_return_dkng, total_return_spy,
                   annual_volatility, sharpe_ratio, max_drawdown, dkng_cum,
                   spy_cum, stdout, raised>>

(***************************************************************************)
(* Lines 40-44: MACD, its signal line and histogram.                       *)
(***************************************************************************)
\* line 42
MACDLine(df) ==
    SeriesSub(ewm_mean(Close(df), exp1_span), ewm_mean(Close(df), exp2_span))

\* line 43
Signal_Line(df) == ewm_mean(MACDLine(df), Signal_span)

\* line 44
MACD_Histogram(df) == SeriesSub(MACDLine(df), Signal_Line(df))

MACD ==
    /\ pc = "macd"
    /\ exp1' = ewm_mean(Close(dkng), exp1_span)
    /\ exp2' = ewm_mean(Close(dkng), exp2_span)
    /\ dkng' = SetCol(SetCol(SetCol(dkng,
                   "MACD", MACDLine(dkng)),
                   "Signal_Line", Signal_Line(dkng)),
                   "MACD_Histogram", MACD_Histogram(dkng))
    /\ pc' = "metrics"
    /\ UNCHANGED <<spy, total_return_dkng, total_return_spy,
                   annual_volatility, sharpe_ratio, max_drawdown, dkng_cum,
                   spy_cum, stdout, raised>>

(***************************************************************************)
(* Lines 47-51: the summary scalars.  iloc[-1] and iloc[0] of an empty     *)
(* series raise IndexError, which ends the run (nothing catches it).       *)
(***************************************************************************)
\* lines 47 and 48
TotalReturn(df) ==
    Mul(Sub(Div(ilocLast(Close(df)), ilocFirst(Close(df))), One), Hundred)

\* line 49
AnnualVolatility(df) ==
    Mul(Mul(std(df.col["Daily_Return"]), Sqrt(FromInt(TradingDays))), Hundred)

\* line 50
SharpeRatio(df) ==
    Div(Mul(mean(df.col["Daily_Return"]), FromInt(TradingDays)),
        Mul(std(df.col["Daily_Return"]), Sqrt(FromInt(TradingDays))))

\* line 51: Close / Close.cummax() - 1
Drawdown(df) ==
    SeriesAddScalar(SeriesDiv(Close(df), cummax(Close(df))), FromInt(-1))

MaxDrawdown(df) == Mul(min(Drawdown(df)), Hundred)

Metrics ==
    /\ pc = "metrics"
    /\ IF Len(Close(dkng)) = 0
       THEN \* line 47 raises
            /\ raised' = "IndexError"
            /\ pc' = "failed"
            /\ UNCHANGED <<total_return_dkng, total_return_spy,
                           annual_volatility, sharpe_ratio, max_drawdown>>
       ELSE IF Len(Close(spy)) = 0
       THEN \* line 48 raises
            /\ total_return_dkng' = TotalReturn(dkng)
            /\ raised' = "IndexError"
            /\ pc' = "failed"
            /\ UNCHANGED <<total_return_spy, annual_volatility, sharpe_ratio,
                           max_drawdown>>
       ELSE /\ total_return_dkng' = TotalReturn(dkng)
            /\ total_return_spy' = TotalReturn(spy)
            /\ annual_volatility' = AnnualVolatility(dkng)
            /\ sharpe_ratio' = SharpeRatio(dkng)
            /\ max_drawdown' = MaxDrawdown(dkng)
            /\ pc' = "report"
            /\ UNCHANGED raised
    /\ UNCHANGED <<dkng, spy, exp1, exp2, dkng_cum, spy_cum, stdout>>

(***************************************************************************)
(* Lines 53-72: the summary report on stdout.  Both frames are not empty   *)
(* here, and float arithmetic and formatting do not raise.                 *)
(***************************************************************************)
\* lines 71 and 72
CloseVs(df, ma) ==
    Mul(Sub(Div(ilocLast(Close(df)), ilocLast(df.col[ma])), One), Hundred)

\* line 62
Outperformance == Sub(total_return_dkng, total_return_spy)

ReportLines ==
    << PrintLine("banner"),
       PrintField("Current Price", ilocLast(Close(dkng))),
       PrintField("52-Week High", max(tail(Close(dkng), Week52))),
       PrintField("52-Week Low", min(tail(Close(dkng), Week52))),
       PrintLine("Performance (2 Years)"),
       PrintField("DKNG Return", total_return_dkng),
       PrintField("SPY Return", total_return_spy),
       PrintField("Outperformance", Outperformance),
       PrintLine("Risk Metrics"),
       PrintField("Annual Volatility", annual_volatility),
       PrintField("Sharpe Ratio", sharpe_ratio),
       PrintField("Max Drawdown", max_drawdown),
       PrintLine("Technical Indicators (Latest)"),
       PrintField("RSI (14)", ilocLast(dkng.col["RSI"])),
       PrintField("MACD", ilocLast(dkng.col["MACD"])),
       PrintField("Signal Line", ilocLast(dkng.col["Signal_Line"])),
       PrintField("Close vs MA20", CloseVs(dkng, "MA_20")),
       PrintField("Close vs MA200", CloseVs(dkng, "MA_200")) >>

Report ==
    /\ pc = "report"
    /\ stdout' = stdout \o ReportLines
    /\ pc' = "cum"
    /\ UNCHANGED <<dkng, spy, exp1, exp2, total_return_dkng, total_return_spy,
                   annual_volatility, sharpe_ratio, max_drawdown, dkng_cum,
                   spy_cum, raised>>

(***************************************************************************)
(* Lines 121-122: the cumulative return series of the last chart (the      *)
(* drawing itself, lines 75-131, belongs to the rendering library).        *)
(***************************************************************************)
\* (1 + df["Daily_Return"]).cumprod()
GrowthFactor(df) == cumprod(SeriesAddScalar(df.col["Daily_Return"], One))

\* (1 + df["Daily_Return"]).cumprod() - 1
CumulativeReturn(df) == SeriesAddScalar(GrowthFactor(df), FromInt(-1))

CumulativeReturns ==
    /\ pc = "cum"
    /\ dkng_cum' = CumulativeReturn(dkng)
    /\ spy_cum' = CumulativeReturn(spy)
    /\ pc' = "complete"
    /\ UNCHANGED <<dkng, spy, exp1, exp2, total_return_dkng, total_return_spy,
                   annual_volatility, sharpe_ratio, max_drawdown, stdout, raised>>

(***************************************************************************)
(* Lines 133-135: the closing banner.                                      *)
(***************************************************************************)
Finish ==
    /\ pc = "complete"
    /\ stdout' = Append(stdout, PrintLine("Analysis complete! Charts displayed."))
    /\ pc' = "done"
    /\ UNCHANGED <<dkng, spy, exp1, exp2, total_return_dkng, total_return_spy,
                   annual_volatility, sharpe_ratio, max_drawdown, dkng_cum,
                   spy_cum, raised>>

Next ==
    \/ Returns
    \/ MovingAverages
    \/ VolatilityStep
    \/ RSI
    \/ MACD
    \/ Metrics
    \/ Report
    \/ CumulativeReturns
    \/ Finish

Spec == Init /\ [][Next]_vars

(***************************************************************************)
(* Properties.  Position j of a TLA+ sequence is Python index j-1.         *)
(***************************************************************************)
N == Len(Close(dkng))

Col(name) == dkng.col[name]

Defined(s) == {j \in 1..Len(s) : ~IsNaN(s[j])}

Undefined(s) == {j \in 1..Len(s) : IsNaN(s[j])}

Minimum(a, b) == IF a < b THEN a ELSE b

Maximum(a, b) == IF a < b THEN b ELSE a

\* the mean of the w closes that end at position j, computed directly
WindowMean(j, w) == Div(SumSeq(SubSeq(Close(dkng), j - w + 1, j)), FromInt(w))

SMAColumns == {<<"MA_20", MA_20_window>>, <<"MA_50", MA_50_window>>, <<"MA_200", MA_200_window>>}

\* C1: once lines 21-23 have run, each SMA column (window w = 20, 50, 200)
\* has the length N of the price series; its entries at Python indices
\* 0..w-2 are nan and its entries at w-1..N-1 are the mean of the w closes
\* ending there; so it has min(N, w-1) nan entries and max(0, N-w+1) defined
\* ones
C1_SMAWarmup ==
    pc = "vol" =>
        \A m \in SMAColumns :
            LET sma == Col(m[1])
                w == m[2]
            IN /\ Len(sma) = N
               /\ \A j \in 1..N :
                     IF j < w THEN IsNaN(sma[j]) ELSE sma[j] = WindowMean(j, w)
               /\ Cardinality(Undefined(sma)) = Minimum(N, w - 1)
               /\ Cardinality(Defined(sma)) = Maximum(0, N - w + 1)

\* C1 witness: a series long enough for the 200-bar average, which moved at
\* its end, so that the last MA_20 and MA_200 are both defined and differ
C1_Witness ==
    /\ pc = "vol"
    /\ N > MA_200_window
    /\ ~IsNaN(Col("MA_200")[N])
    /\ ~IsNaN(Col("MA_200")[N - 1])
    /\ Col("MA_200")[N] # Col("MA_20")[N]

\* C2: once line 37 has run, rsi[i] is nan at every Python index i < p, that
\* is at the first p = 14 positions
C2_RSIFirstPUndefined ==
    pc = "macd" => \A j \in 1..N : j <= rsi_period => IsNaN(Col("RSI")[j])

\* C3: once line 37 has run, at every position where both window averages
\* are defined: avg_loss = 0 < avg_gain gives rsi = 100 exactly; avg_gain =
\* avg_loss = 0 gives nan; otherwise rsi = 100 - 100/(1 + avg_gain/avg_loss)
\* (= 100 * avg_gain / (avg_gain + avg_loss)) and 0 <= rsi <= 100
C3_RSIEdgeCases ==
    pc = "macd" =>
        LET gain == rsi_gain(Close(dkng), rsi_period)
            loss == rsi_loss(Close(dkng), rsi_period)
            rsi == Col("RSI")
        IN \A j \in 1..N :
              (~IsNaN(gain[j]) /\ ~IsNaN(loss[j])) =>
                 IF IsZero(loss[j]) /\ Gt(gain[j], Zero) THEN rsi[j] = Hundred
                 ELSE IF IsZero(loss[j]) /\ IsZero(gain[j]) THEN IsNaN(rsi[j])
                 ELSE /\ rsi[j] = Div(Mul(Hundred, gain[j]), Add(gain[j], loss[j]))
                      /\ Le(Zero, rsi[j])
                      /\ Le(rsi[j], Hundred)

\* C3 witness: one window with gains only (rsi = 100) and one with gains and
\* losses (0 < rsi < 100) in the same run
C3_Witness ==
    /\ pc = "macd"
    /\ LET gain == rsi_gain(Close(dkng), rsi_period)
           loss == rsi_loss(Close(dkng), rsi_period)
           rsi == Col("RSI")
       IN /\ \E j \in 1..N : IsZero(loss[j]) /\ Gt(gain[j], Zero) /\ rsi[j] = Hundred
          /\ \E j \in 1..N : /\ Gt(loss[j], Zero) /\ Gt(gain[j], Zero)
                             /\ Lt(Zero, rsi[j]) /\ Lt(rsi[j], Hundred)

\* the lines of the report with this label
Printed(label) == {k \in 1..Len(stdout) : stdout[k].label = label}

\* C4: in a run that prints its report, when the daily returns have zero
\* standard deviation the Sharpe ratio is reported as the unavailable marker
\* (read here as nan, the only undefined marker the script has), never as
\* an infinity
C4_SharpeUnavailable ==
    (pc = "done" /\ IsZero(std(Col("Daily_Return")))) =>
        \E k \in Printed("Sharpe Ratio") : stdout[k].text.special = "nan"

DerivedColumns(df) == DOMAIN df.col \ {"Close"}

ReportLabels == {ReportLines[k].label : k \in 1..Len(ReportLines)}

SummaryPrinted == {k \in 1..Len(stdout) : stdout[k].label \in ReportLabels}

\* C5: a run whose instrument or benchmark series is empty ends with
\* EmptySeriesError, without a derived series and without a report line
C5_EmptySeriesError ==
    (pc \in {"failed", "done"} /\ (Len(Close(dkng)) = 0 \/ Len(Close(spy)) = 0)) =>
        /\ raised = "EmptySeriesError"
        /\ DerivedColumns(dkng) = {}
        /\ DerivedColumns(spy) = {}
        /\ SummaryPrinted = {}

Dates(df) == {df.index[j] : j \in 1..Len(df.index)}

\* the closes of df on the dates in D, in date order
ClosesOn(df, D) ==
    LET keep == {j \in 1..Len(df.index) : df.index[j] \in D}
        pos(r) == CHOOSE j \in keep : Cardinality({i \in keep : i < j}) = r - 1
    IN [r \in 1..Cardinality(keep) |-> Close(df)[pos(r)]]

\* (last/first - 1) * 100 of a series of closes that is not empty
ReturnOver(closes) ==
    Mul(Sub(Div(closes[Len(closes)], closes[1]), One), Hundred)

CommonDates == Dates(dkng) \cap Dates(spy)

\* C6: when the date axes of two series that are not empty differ, the run
\* fails with MisalignedSeriesError, or the outperformance it prints is the
\* one over the dates the two series share
C6_AlignedOutperformance ==
    (pc \in {"failed", "done"} /\ dkng.index # spy.index
        /\ Len(Close(dkng)) > 0 /\ Len(Close(spy)) > 0) =>
        \/ raised = "MisalignedSeriesError"
        \/ /\ CommonDates # {}
           /\ \E k \in Printed("Outperformance") :
                 stdout[k].text.number =
                    Sub(ReturnOver(ClosesOn(dkng, CommonDates)),
                        ReturnOver(ClosesOn(spy, CommonDates)))

\* C7: for a series of N >= 1 positive closes, once line 51 has run: the
\* running maximum is non-decreasing, the drawdown is <= 0 at every position
\* and 0 at the first, so max_drawdown <= 0, and max_drawdown = 0 exactly
\* when no close falls below an earlier one (when the closes never decrease)
C7_Drawdown ==
    (pc = "report" /\ N >= 1) =>
        LET close == Close(dkng)
            running_max == cummax(close)
            drawdown == Drawdown(dkng)
        IN /\ \A j \in 2..N : Le(running_max[j - 1], running_max[j])
           /\ \A j \in 1..N : Le(drawdown[j], Zero)
           /\ drawdown[1] = Zero
           /\ Le(max_drawdown, Zero)
           /\ (max_drawdown = Zero) <=> (\A j \in 2..N : ~Lt(close[j], close[j - 1]))

\* C7 witness: a run whose closes rose to a new maximum and then fell
C7_Witness ==
    /\ pc = "report"
    /\ N >= 3
    /\ Lt(Close(dkng)[1], Close(dkng)[N - 1])
    /\ Lt(Close(dkng)[N], Close(dkng)[N - 1])
    /\ Lt(max_drawdown, Zero)

\* C8: once lines 121-122 have run, at every Python index i in 0..N-1, index
\* 0 included, the running product of (1 + daily_return), which is the
\* cumulative return series plus 1, is defined and equals close[i]/close[0]
C8_CumulativeReturn ==
    pc \in {"complete", "done"} =>
        /\ \A j \in 1..N :
              Add(dkng_cum[j], One) = Div(Close(dkng)[j], Close(dkng)[1])
        /\ \A j \in 1..Len(Close(spy)) :
              Add(spy_cum[j], One) = Div(Close(spy)[j], Close(spy)[1])

Alpha(span) == Rat(2, span + 1)

\* the recurrence ema[0] = x[0], ema[i] = a*x[i] + (1-a)*ema[i-1] of series x
IsEMA(ema, x, span) ==
    /\ Len(ema) = Len(x)
    /\ \A j \in 1..Len(x) :
          /\ ema[j].k = "num"
          /\ IF j = 1 THEN ema[j] = x[j]
             ELSE ema[j] = Add(Mul(Alpha(span), x[j]),
                               Mul(Sub(One, Alpha(span)), ema[j - 1]))

\* C9: once lines 40-44 have run, the span-12 and span-26 EMAs start at
\* close[0], follow the recurrence with a = 2/(span+1) and are defined at
\* every position; MACD, signal line and histogram have length N and are
\* defined at every position, signal[0] = macd[0], and all three are 0 at
\* index 0
C9_MACDFullLength ==
    pc = "metrics" =>
        /\ IsEMA(exp1, Close(dkng), exp1_span)
        /\ IsEMA(exp2, Close(dkng), exp2_span)
        /\ \A name \in {"MACD", "Signal_Line", "MACD_Histogram"} :
              /\ Len(Col(name)) = N
              /\ \A j \in 1..N : Col(name)[j].k = "num"
              /\ N >= 1 => Col(name)[1] = Zero
        /\ N >= 1 => Col("Signal_Line")[1] = Col("MACD")[1]

\* C9 witness: a run whose closes moved, so that the two EMAs, the MACD and
\* the signal line differ at the last position
C9_Witness ==
    /\ pc = "metrics"
    /\ N >= 3
    /\ exp1[N] # exp2[N]
    /\ Col("MACD")[N] # Zero
    /\ Col("Signal_Line")[N] # Col("MACD")[N]
    /\ exp1[1] = Close(dkng)[1]

\* C10: once line 26 has run, the rolling volatility is nan at every Python
\* index i <= 19 (the first 20 positions) and defined at every i >= 20, so
\* a series needs at least 21 observations for a defined entry
C10_VolatilityWarmup ==
    pc = "rsi" =>
        /\ Len(Col("Volatility")) = N
        /\ \A j \in 1..N :
              IsNaN(Col("Volatility")[j]) <=> j <= Volatility_window

\* C10 witness: a series of more than 20 bars, whose volatility is undefined
\* at index 19 and defined at index 20
C10_Witness ==
    /\ pc = "rsi"
    /\ N > Volatility_window
    /\ IsNaN(Col("Volatility")[Volatility_window])
    /\ ~IsNaN(Col("Volatility")[Volatility_window + 1])

====
